---- MODULE Spec2Model ----
(***************************************************************************)
(* Model of homework.py: a bot that polls the review API for the status of *)
(* a homework, sends a Telegram message when a status is returned, and     *)
(* reports failures to the same chat, once per run of identical messages.  *)
(*                                                                         *)
(* A text (a Python str) is a sequence of string tokens; '' is << >>.      *)
(* A template is a sequence of pieces, a literal or a {placeholder}.       *)
(* An optional value (a dict key that may be absent, a variable that may   *)
(* be None) is a sequence of length 0 or 1.                                *)
(***************************************************************************)
EXTENDS Integers, Sequences, FiniteSets, TLC

(***************************************************************************)
(* Module-level constants, homework.py lines 17-50.                        *)
(***************************************************************************)
RETRY_TIME == 600

ENDPOINT == <<"https://practicum.yandex.ru/api/user_api/homework_statuses/">>

Lit(s) == <<"lit", s>>
Fld(s) == <<"fld", s>>

HOMEWORK_VERDICTS ==
    [approved  |-> <<"Work checked: the reviewer liked everything. Hooray!">>,
     reviewing |-> <<"Work taken for review by the reviewer.">>,
     rejected  |-> <<"Work checked: the reviewer has remarks.">>]

MESSAGE == <<Lit("Sending message to chat: "), Fld("message")>>

RESPONSE_ERROR ==
    <<Lit("Endpoint "), Fld("endpoint"), Lit(" is unavailable.API response code: "),
      Fld("status_code"), Lit(" Request parameters used: url: "), Fld("url"),
      Lit("; headers: "), Fld("headers"), Lit("; params: "), Fld("params")>>

CONNECTION_ERROR ==
    <<Lit("Problems connecting to the server: "), Fld("error"),
      Lit(". Request parameters used: url: "), Fld("url"),
      Lit("; headers: "), Fld("headers"), Lit("; params: "), Fld("params")>>

UNEXPECTED_RESPONSE ==
    <<Lit("Unexpected server response. Problem description: "), Fld("error"),
      Lit(". API response code: "), Fld("status_code"),
      Lit(". Request parameters used: url: "), Fld("url"),
      Lit("; headers: "), Fld("headers"), Lit("; params: "), Fld("params"),
      Lit(".")>>

UNEXPECTED_RESPONSE_TYPE ==
    <<Lit("Unexpected response data format: "), Fld("type")>>

UNEXPECTED_HOMEWORK_TYPE ==
    <<Lit("Unexpected homework data format: "), Fld("type")>>

UNEXPECTED_STATUS == <<Lit("Unexpected homework status: "), Fld("status")>>

HOMEWORK_STATUS_CHANGE ==
    <<Lit("Review status of work changed "), Lit("\""), Fld("homework_name"),
      Lit("\""), Lit(". "), Fld("verdict")>>

ENVIRONMENT_VARIABLES_MISSING ==
    <<Lit("Required environment variable is missing: "), Fld("name")>>

STOP_BOT == <<"The program was stopped forcibly.">>

STATUS_NOT_CHANGE == <<"The response has no new homework statuses">>

ERROR_MESSAGE == <<Lit("Program failure: "), Fld("error")>>

(***************************************************************************)
(* Results of a call: a returned value or a raised exception.              *)
(***************************************************************************)
NoExc == [type |-> "", text |-> << >>]
Return(v) == [ok |-> TRUE, val |-> v, exc |-> NoExc]
Raise(type, text) == [ok |-> FALSE, val |-> << >>, exc |-> [type |-> type, text |-> text]]

(* str(exception): the message; a KeyError shows the repr of its key. *)
Str(exc) == IF exc.type = "KeyError" THEN <<"'">> \o exc.text \o <<"'">> ELSE exc.text

(***************************************************************************)
(* template.format(args): the pieces of the template in order, each       *)
(* placeholder replaced by its argument; the first placeholder that has no *)
(* argument raises KeyError(placeholder).  Arguments the template does not *)
(* name are ignored.                                                       *)
(***************************************************************************)
RECURSIVE FormatFrom(_, _, _)
FormatFrom(template, args, i) ==
    IF i > Len(template) THEN Return(<< >>)
    ELSE LET piece == template[i] IN
         IF piece[1] = "lit"
         THEN LET rest == FormatFrom(template, args, i + 1) IN
              IF rest.ok THEN Return(<<piece[2]>> \o rest.val) ELSE rest
         ELSE IF piece[2] \notin DOMAIN args
              THEN Raise("KeyError", <<piece[2]>>)
              ELSE LET rest == FormatFrom(template, args, i + 1) IN
                   IF rest.ok THEN Return(args[piece[2]] \o rest.val) ELSE rest

Format(template, args) == FormatFrom(template, args, 1)

(* str(n) of an integer *)
IntText(n) == <<ToString(n)>>

(* raise type(template.format(args)): the exception raised, or the one     *)
(* that formatting its message raised first.                               *)
RaiseFormatted(type, formatted) ==
    IF formatted.ok THEN Raise(type, formatted.val) ELSE formatted

(***************************************************************************)
(* Module state: the three environment values read at import time, lines   *)
(* 13-15 (<< >> is None, <<"">> the empty string), and the locals of main  *)
(* with the position of its control.                                       *)
(***************************************************************************)
VARIABLES
    PRACTICUM_TOKEN, TELEGRAM_TOKEN, TELEGRAM_CHAT_ID,
    pc,                \* where main is
    current_timestamp, \* the poll cursor, main line 135
    sent_message,      \* the failure-dedup state, main line 136
    response,          \* what get_api_answer returned, main line 139
    new_homeworks,     \* what check_response returned, main line 140
    error,             \* the exception the except clause caught, line 146
    iter,              \* history: what the current iteration did so far
    prev,              \* history: what the iteration before it did
    arg,               \* the argument of a function applied on its own
    ret,               \* and what it returned or raised
    seen,              \* history: the watched diagnostics notified so far
    last_failure       \* history: the text of the last failure notification

vars == <<PRACTICUM_TOKEN, TELEGRAM_TOKEN, TELEGRAM_CHAT_ID, pc,
          current_timestamp, sent_message, response, new_homeworks, error,
          iter, prev, arg, ret, seen, last_failure>>

env == <<PRACTICUM_TOKEN, TELEGRAM_TOKEN, TELEGRAM_CHAT_ID>>
locals == <<current_timestamp, sent_message, response, new_homeworks, error>>
applied == <<arg, ret, seen, last_failure>>

(* HEADERS, line 19, as str() shows the dict in a message *)
HEADERS ==
    <<"{'Authorization': 'OAuth ">>
    \o (IF PRACTICUM_TOKEN = << >> THEN <<"None">> ELSE PRACTICUM_TOKEN)
    \o <<"'}">>

(***************************************************************************)
(* What the review API can answer.  A decoded JSON body is a record of its *)
(* kind ("dict", "list", "int") and, for a dict, its keys; "notjson" is a  *)
(* body that json() cannot decode.  The value under `homeworks` carries    *)
(* its JSON type t and, for a list, the records v.                         *)
(***************************************************************************)
Homework(name, status) == [homework_name |-> name, status |-> status]

HomeworksValue(t, v) == [t |-> t, v |-> v]

Body(kind, err, code, homeworks, current_date) ==
    [kind |-> kind, error |-> err, code |-> code, homeworks |-> homeworks,
     current_date |-> current_date]

NoResponse == Body("unset", << >>, << >>, HomeworksValue("absent", << >>), << >>)

NonDictBody(kind) == Body(kind, << >>, << >>, HomeworksValue("absent", << >>), << >>)

(* type(x) as str() shows it *)
TypeText(t) ==
    <<"<class '", (IF t \in {"absent", "null"} THEN "NoneType" ELSE t), "'>">>

(* the reply of requests.get: the transport's outcome, the status code and *)
(* the body                                                                *)
Reply(transport, status_code, body) ==
    [transport |-> transport, status_code |-> status_code, body |-> body]

(***************************************************************************)
(* send_message, lines 67-70: logs the message, then hands it to the bot;  *)
(* `delivered` is whether bot.send_message returns or raises.              *)
(***************************************************************************)
send_message(message, delivered) ==
    LET info == Format(MESSAGE, [message |-> message]) IN
    IF ~info.ok THEN info
    ELSE IF delivered THEN Return(message)
    ELSE Raise("TelegramError", <<"Telegram could not deliver">>)

(***************************************************************************)
(* get_api_answer, lines 73-96, given the reply of requests.get.           *)
(***************************************************************************)
REQUEST(timestamp) ==
    [url |-> ENDPOINT, headers |-> HEADERS,
     params |-> <<"{'from_date': ">> \o IntText(timestamp) \o <<"}">>]

(* `field in homework_statuses`, line 86: a key of a dict, an element of a *)
(* list (a list of records holds no string), a TypeError for a number      *)
FieldIn(field, body) ==
    IF body.kind = "dict" THEN Return(body[field] # << >>)
    ELSE IF body.kind = "list" THEN Return(FALSE)
    ELSE Raise("TypeError", <<"argument of type '", body.kind, "' is not iterable">>)

RECURSIVE DiagnosticFields(_, _, _, _)
DiagnosticFields(fields, timestamp, reply, i) ==
    IF i > Len(fields) THEN Return(<< >>)
    ELSE LET found == FieldIn(fields[i], reply.body) IN
         IF ~found.ok THEN found
         ELSE IF found.val
         THEN RaiseFormatted("RuntimeError",
                  Format(UNEXPECTED_RESPONSE,
                         REQUEST(timestamp) @@
                         [error |-> reply.body[fields[i]],
                          status_code |-> IntText(reply.status_code)]))
         ELSE DiagnosticFields(fields, timestamp, reply, i + 1)

(* get_api_answer if the status code of line 92 were tested before the    *)
(* fields of lines 85-91                                                   *)
get_api_answer_status_first(timestamp, reply) ==
    IF reply.transport = "ConnectionError"
    THEN RaiseFormatted("ConnectionError",
             Format(CONNECTION_ERROR,
                    REQUEST(timestamp) @@ [error |-> <<"connection refused">>]))
    ELSE IF reply.transport # "ok"
    THEN Raise(reply.transport, <<"request failed: ", reply.transport>>)
    ELSE IF reply.body.kind = "notjson"
    THEN Raise("JSONDecodeError", <<"Expecting value: line 1 column 1 (char 0)">>)
    ELSE IF reply.status_code # 200
    THEN RaiseFormatted("ValueError",
             Format(RESPONSE_ERROR,
                    [endpoint |-> ENDPOINT,
                     status_code |-> IntText(reply.status_code)]))
    ELSE LET diagnostic == DiagnosticFields(<<"error", "code">>, timestamp, reply, 1) IN
         IF ~diagnostic.ok THEN diagnostic
         ELSE Return(reply.body)

get_api_answer(timestamp, reply) ==
    IF reply.transport = "ConnectionError"
    THEN RaiseFormatted("ConnectionError",
             Format(CONNECTION_ERROR,
                    REQUEST(timestamp) @@ [error |-> <<"connection refused">>]))
    ELSE IF reply.transport # "ok"
    THEN Raise(reply.transport, <<"request failed: ", reply.transport>>)
    ELSE IF reply.body.kind = "notjson"
    THEN Raise("JSONDecodeError", <<"Expecting value: line 1 column 1 (char 0)">>)
    ELSE LET diagnostic == DiagnosticFields(<<"error", "code">>, timestamp, reply, 1) IN
         IF ~diagnostic.ok THEN diagnostic
         ELSE IF reply.status_code # 200
         THEN RaiseFormatted("ValueError",
                  Format(RESPONSE_ERROR,
                         [endpoint |-> ENDPOINT,
                          status_code |-> IntText(reply.status_code)]))
         ELSE Return(reply.body)

(***************************************************************************)
(* check_response, lines 99-107.                                           *)
(***************************************************************************)
(* check_response if it read response.get('homeworks', []): an absent key  *)
(* passes as an empty list                                                 *)
check_response_defaulting(resp) ==
    IF resp.kind # "dict"
    THEN RaiseFormatted("TypeError",
             Format(UNEXPECTED_RESPONSE_TYPE, [type |-> TypeText(resp.kind)]))
    ELSE IF resp.homeworks.t = "absent" THEN Return(<< >>)
    ELSE IF resp.homeworks.t # "list"
    THEN RaiseFormatted("TypeError",
             Format(UNEXPECTED_HOMEWORK_TYPE, [type |-> TypeText(resp.homeworks.t)]))
    ELSE Return(resp.homeworks.v)

check_response(resp) ==
    IF resp.kind # "dict"
    THEN RaiseFormatted("TypeError",
             Format(UNEXPECTED_RESPONSE_TYPE, [type |-> TypeText(resp.kind)]))
    ELSE IF resp.homeworks.t # "list"
    THEN RaiseFormatted("TypeError",
             Format(UNEXPECTED_HOMEWORK_TYPE, [type |-> TypeText(resp.homeworks.t)]))
    ELSE Return(resp.homeworks.v)

(***************************************************************************)
(* parse_status, lines 110-118.                                            *)
(***************************************************************************)
(* parse_status if it read homework.get('status'): a record without the    *)
(* key has the status None                                                 *)
parse_status_with_get(homework) ==
    IF homework.homework_name = << >> THEN Raise("KeyError", <<"homework_name">>)
    ELSE LET homework_name == homework.homework_name
             status == IF homework.status = << >> THEN "None" ELSE homework.status[1] IN
         IF status \notin DOMAIN HOMEWORK_VERDICTS
         THEN RaiseFormatted("ValueError",
                  Format(UNEXPECTED_STATUS, [status |-> <<status>>]))
         ELSE Format(HOMEWORK_STATUS_CHANGE,
                     [homework_name |-> homework_name,
                      verdict |-> HOMEWORK_VERDICTS[status]])

parse_status(homework) ==
    IF homework.homework_name = << >> THEN Raise("KeyError", <<"homework_name">>)
    ELSE IF homework.status = << >> THEN Raise("KeyError", <<"status">>)
    ELSE LET homework_name == homework.homework_name
             status == homework.status[1] IN
         IF status \notin DOMAIN HOMEWORK_VERDICTS
         THEN RaiseFormatted("ValueError",
                  Format(UNEXPECTED_STATUS, [status |-> <<status>>]))
         ELSE Format(HOMEWORK_STATUS_CHANGE,
                     [homework_name |-> homework_name,
                      verdict |-> HOMEWORK_VERDICTS[status]])

(***************************************************************************)
(* check_tokens, lines 121-127: a value that is None or '' is missing.     *)
(***************************************************************************)
Missing(value) == value = << >> \/ value = <<"">>

(* check_tokens without the last name of the list of line 123 *)
check_tokens_without_chat_id ==
    ~Missing(PRACTICUM_TOKEN) /\ ~Missing(TELEGRAM_TOKEN)

check_tokens ==
    ~Missing(PRACTICUM_TOKEN) /\ ~Missing(TELEGRAM_TOKEN) /\ ~Missing(TELEGRAM_CHAT_ID)

(***************************************************************************)
(* History of an iteration of main's loop: the cursor and the dedup state  *)
(* it started with, the current_date of the response it fetched, and the   *)
(* calls it made, in order.                                                *)
(***************************************************************************)
Event(ev, text, n, ok) == [ev |-> ev, text |-> text, n |-> n, ok |-> ok]

EmptyIter == [cursor0 |-> 0, dedup0 |-> << >>, date |-> << >>, steps |-> << >>]

Did(event) == [iter EXCEPT !.steps = Append(@, event)]

(***************************************************************************)
(* What the environment can do in the loop.                                *)
(***************************************************************************)
MaxHomeworks == 2

StartTimes == {500}

Dates == {<< >>, <<1000>>}

Tokens == {<< >>, <<"">>, <<"token">>}

FirstHomeworks ==
    {Homework(name, status) :
        name \in {<< >>, <<"hw1">>}, status \in {<< >>, <<"approved">>, <<"bogus">>}}

OlderHomeworks == {Homework(<<"hw0">>, <<"rejected">>), Homework(<<"hw0">>, <<"bogus">>)}

(* the batches: most recent first, up to MaxHomeworks records *)
RECURSIVE OlderBatches(_)
OlderBatches(n) ==
    IF n = 0 THEN {<< >>}
    ELSE OlderBatches(n - 1) \cup
         {<<h>> \o b : h \in OlderHomeworks, b \in OlderBatches(n - 1)}

Batches ==
    {<< >>} \cup
    (IF MaxHomeworks = 0 THEN {}
     ELSE {<<h>> \o b : h \in FirstHomeworks, b \in OlderBatches(MaxHomeworks - 1)})

HomeworksValues ==
    {HomeworksValue(t, << >>) : t \in {"absent", "null", "str"}}
    \cup {HomeworksValue("list", b) : b \in Batches}

Replies ==
    {Reply(t, 200, NonDictBody("notjson")) : t \in {"ConnectionError", "ReadTimeout"}}
    \cup {Reply("ok", 200, NonDictBody(k)) : k \in {"notjson", "int", "list"}}
    \cup {Reply("ok", 500, Body("dict", <<"bad token">>, << >>,
                                HomeworksValue("absent", << >>), << >>)),
          Reply("ok", 200, Body("dict", << >>, <<"UnknownError">>,
                                HomeworksValue("absent", << >>), << >>)),
          Reply("ok", 500, Body("dict", << >>, << >>,
                                HomeworksValue("list", << >>), <<1000>>))}
    \cup {Reply("ok", 200, Body("dict", << >>, << >>, h, d)) :
            h \in HomeworksValues, d \in Dates}

Deliveries == {TRUE, FALSE}

(***************************************************************************)
(* main, lines 130-157, one action per step of its control.                *)
(***************************************************************************)
Unused == << >>

Init ==
    /\ PRACTICUM_TOKEN \in Tokens
    /\ TELEGRAM_TOKEN \in Tokens
    /\ TELEGRAM_CHAT_ID \in Tokens
    /\ pc = "start"
    /\ current_timestamp = 0
    /\ sent_message = << >>
    /\ response = NoResponse
    /\ new_homeworks = << >>
    /\ error = NoExc
    /\ iter = EmptyIter
    /\ prev = EmptyIter
    /\ arg = Unused
    /\ ret = Unused
    /\ seen = {}
    /\ last_failure = << >>

(* lines 132-136: the tokens are checked once; without them main raises    *)
(* ValueError(STOP_BOT) and never reaches the loop                         *)
main_check_tokens ==
    /\ pc = "start"
    /\ IF ~check_tokens
       THEN /\ pc' = "raised"
            /\ error' = [type |-> "ValueError", text |-> STOP_BOT]
            /\ UNCHANGED <<current_timestamp, sent_message>>
       ELSE /\ pc' = "try"
            /\ current_timestamp' \in StartTimes
            /\ sent_message' = << >>
            /\ UNCHANGED error
    /\ UNCHANGED <<env, response, new_homeworks, iter, prev, applied>>

(* line 139, the reply being one of `replies` *)
(* line 139 if a failed call of get_api_answer were repeated once before   *)
(* the failure is let through                                              *)
main_get_api_answer_retrying(replies) ==
    /\ pc = "try"
    /\ \E reply \in replies, again \in replies :
         LET first == get_api_answer(current_timestamp, reply)
             answer == IF first.ok THEN first
                       ELSE get_api_answer(current_timestamp, again) IN
         /\ iter' = [cursor0 |-> current_timestamp, dedup0 |-> sent_message,
                     date |-> IF answer.ok THEN answer.val.current_date ELSE << >>,
                     steps |-> (IF first.ok THEN << >>
                                ELSE <<Event("get_api_answer", << >>,
                                             current_timestamp, FALSE)>>)
                               \o <<Event("get_api_answer", << >>,
                                          current_timestamp, answer.ok)>>]
         /\ IF answer.ok
            THEN response' = answer.val /\ pc' = "check" /\ UNCHANGED error
            ELSE error' = answer.exc /\ pc' = "except" /\ UNCHANGED response
    /\ UNCHANGED <<env, current_timestamp, sent_message, new_homeworks, prev, applied>>

main_get_api_answer_of(replies) ==
    /\ pc = "try"
    /\ \E reply \in replies :
         LET answer == get_api_answer(current_timestamp, reply) IN
         /\ iter' = [cursor0 |-> current_timestamp, dedup0 |-> sent_message,
                     date |-> IF answer.ok THEN answer.val.current_date ELSE << >>,
                     steps |-> <<Event("get_api_answer", << >>,
                                       current_timestamp, answer.ok)>>]
         /\ IF answer.ok
            THEN response' = answer.val /\ pc' = "check" /\ UNCHANGED error
            ELSE error' = answer.exc /\ pc' = "except" /\ UNCHANGED response
    /\ UNCHANGED <<env, current_timestamp, sent_message, new_homeworks, prev, applied>>

main_get_api_answer == main_get_api_answer_of(Replies)

(* line 140 *)
main_check_response ==
    /\ pc = "check"
    /\ LET checked == check_response(response) IN
       /\ iter' = Did(Event("check_response", << >>, 0, checked.ok))
       /\ IF checked.ok
          THEN new_homeworks' = checked.val /\ pc' = "detect" /\ UNCHANGED error
          ELSE error' = checked.exc /\ pc' = "except" /\ UNCHANGED new_homeworks
    /\ UNCHANGED <<env, current_timestamp, sent_message, response, prev, applied>>

(* lines 141-144; new_homeworks is not read again before line 140 assigns  *)
(* it, so its value is dropped here                                        *)
(* lines 141-144 if a status message went through the dedup of line 149 *)
main_notify_deduplicated ==
    /\ pc = "detect"
    /\ IF new_homeworks # << >>
       THEN LET parsed == parse_status(new_homeworks[1]) IN
            IF ~parsed.ok
            THEN /\ iter' = Did(Event("parse_status", << >>, 0, FALSE))
                 /\ error' = parsed.exc
                 /\ pc' = "except"
                 /\ UNCHANGED sent_message
            ELSE IF sent_message = parsed.val
            THEN /\ iter' = Did(Event("parse_status", parsed.val, 0, TRUE))
                 /\ pc' = "sleep"
                 /\ UNCHANGED <<error, sent_message>>
            ELSE \E delivered \in Deliveries :
                   LET sent == send_message(parsed.val, delivered) IN
                   /\ sent_message' = parsed.val
                   /\ iter' = [iter EXCEPT !.steps = @ \o
                                 <<Event("parse_status", parsed.val, 0, TRUE),
                                   Event("send_status", parsed.val, 0, sent.ok)>>]
                   /\ IF sent.ok
                      THEN pc' = "sleep" /\ UNCHANGED error
                      ELSE error' = sent.exc /\ pc' = "except"
       ELSE /\ iter' = Did(Event("debug", STATUS_NOT_CHANGE, 0, TRUE))
            /\ pc' = "sleep"
            /\ UNCHANGED <<error, sent_message>>
    /\ new_homeworks' = << >>
    /\ UNCHANGED <<env, current_timestamp, response, prev, applied>>

(* lines 141-144 if a failure of line 142 went straight to the next poll *)
main_notify_repolling ==
    /\ pc = "detect"
    /\ IF new_homeworks # << >>
       THEN LET parsed == parse_status(new_homeworks[1]) IN
            IF ~parsed.ok
            THEN /\ iter' = Did(Event("parse_status", << >>, 0, FALSE))
                 /\ error' = parsed.exc
                 /\ pc' = "try"
            ELSE \E delivered \in Deliveries :
                   LET sent == send_message(parsed.val, delivered) IN
                   /\ iter' = [iter EXCEPT !.steps = @ \o
                                 <<Event("parse_status", parsed.val, 0, TRUE),
                                   Event("send_status", parsed.val, 0, sent.ok)>>]
                   /\ IF sent.ok
                      THEN pc' = "sleep" /\ UNCHANGED error
                      ELSE error' = sent.exc /\ pc' = "try"
       ELSE /\ iter' = Did(Event("debug", STATUS_NOT_CHANGE, 0, TRUE))
            /\ pc' = "sleep"
            /\ UNCHANGED error
    /\ new_homeworks' = << >>
    /\ UNCHANGED <<env, current_timestamp, sent_message, response, prev, applied>>

(* lines 141-144 if line 142 took the last record of the batch *)
main_notify_last ==
    /\ pc = "detect"
    /\ IF new_homeworks # << >>
       THEN LET parsed == parse_status(new_homeworks[Len(new_homeworks)]) IN
            IF ~parsed.ok
            THEN /\ iter' = Did(Event("parse_status", << >>, 0, FALSE))
                 /\ error' = parsed.exc
                 /\ pc' = "except"
            ELSE \E delivered \in Deliveries :
                   LET sent == send_message(parsed.val, delivered) IN
                   /\ iter' = [iter EXCEPT !.steps = @ \o
                                 <<Event("parse_status", parsed.val, 0, TRUE),
                                   Event("send_status", parsed.val, 0, sent.ok)>>]
                   /\ IF sent.ok
                      THEN pc' = "sleep" /\ UNCHANGED error
                      ELSE error' = sent.exc /\ pc' = "except"
       ELSE /\ iter' = Did(Event("debug", STATUS_NOT_CHANGE, 0, TRUE))
            /\ pc' = "sleep"
            /\ UNCHANGED error
    /\ new_homeworks' = << >>
    /\ UNCHANGED <<env, current_timestamp, sent_message, response, prev, applied>>

main_notify ==
    /\ pc = "detect"
    /\ IF new_homeworks # << >>
       THEN LET parsed == parse_status(new_homeworks[1]) IN
            IF ~parsed.ok
            THEN /\ iter' = Did(Event("parse_status", << >>, 0, FALSE))
                 /\ error' = parsed.exc
                 /\ pc' = "except"
            ELSE \E delivered \in Deliveries :
                   LET sent == send_message(parsed.val, delivered) IN
                   /\ iter' = [iter EXCEPT !.steps = @ \o
                                 <<Event("parse_status", parsed.val, 0, TRUE),
                                   Event("send_status", parsed.val, 0, sent.ok)>>]
                   /\ IF sent.ok
                      THEN pc' = "sleep" /\ UNCHANGED error
                      ELSE error' = sent.exc /\ pc' = "except"
       ELSE /\ iter' = Did(Event("debug", STATUS_NOT_CHANGE, 0, TRUE))
            /\ pc' = "sleep"
            /\ UNCHANGED error
    /\ new_homeworks' = << >>
    /\ UNCHANGED <<env, current_timestamp, sent_message, response, prev, applied>>

(* line 145 if the cursor were updated before the sleep *)
main_sleep_updating ==
    /\ pc = "sleep"
    /\ current_timestamp' =
         IF response.current_date # << >> THEN response.current_date[1]
         ELSE current_timestamp
    /\ iter' = [iter EXCEPT !.steps = @ \o
                  <<Event("cursor", << >>, current_timestamp', TRUE),
                    Event("sleep", << >>, RETRY_TIME, TRUE)>>]
    /\ pc' = "else"
    /\ UNCHANGED <<env, sent_message, response, new_homeworks, error, prev, applied>>

(* line 145 *)
main_sleep ==
    /\ pc = "sleep"
    /\ iter' = Did(Event("sleep", << >>, RETRY_TIME, TRUE))
    /\ pc' = "else"
    /\ UNCHANGED <<env, locals, prev, applied>>

(* the else clause if a success also cleared the dedup state *)
main_else_resetting ==
    /\ pc = "else"
    /\ current_timestamp' =
         IF response.current_date # << >> THEN response.current_date[1]
         ELSE current_timestamp
    /\ sent_message' = << >>
    /\ prev' = Did(Event("cursor", << >>, current_timestamp', TRUE))
    /\ iter' = EmptyIter
    /\ response' = NoResponse
    /\ pc' = "try"
    /\ UNCHANGED <<env, new_homeworks, error, applied>>

(* the else clause if it read current_date with no default: an absent     *)
(* field resets the cursor                                                 *)
main_else_no_default ==
    /\ pc = "else"
    /\ current_timestamp' =
         IF response.current_date # << >> THEN response.current_date[1] ELSE 0
    /\ prev' = Did(Event("cursor", << >>, current_timestamp', TRUE))
    /\ iter' = EmptyIter
    /\ response' = NoResponse
    /\ pc' = "try"
    /\ UNCHANGED <<env, sent_message, new_homeworks, error, applied>>

(* lines 156-157, the end of a successful iteration; response is not read  *)
(* again before line 139 assigns it, so its value is dropped here          *)
main_else ==
    /\ pc = "else"
    /\ current_timestamp' =
         IF response.current_date # << >> THEN response.current_date[1]
         ELSE current_timestamp
    /\ prev' = Did(Event("cursor", << >>, current_timestamp', TRUE))
    /\ iter' = EmptyIter
    /\ response' = NoResponse
    /\ pc' = "try"
    /\ UNCHANGED <<env, sent_message, new_homeworks, error, applied>>

(* the except clause without the inner try of lines 151-154: a failed     *)
(* delivery of the diagnostic leaves main                                  *)
main_except_unguarded ==
    /\ pc = "except"
    /\ LET message == Format(ERROR_MESSAGE, [error |-> Str(error)]).val IN
       IF sent_message # message
       THEN \E delivered \in Deliveries :
              /\ sent_message' = message
              /\ last_failure' = message
              /\ iter' = [iter EXCEPT !.steps = @ \o
                            <<Event("except", message, 0, TRUE),
                              Event("send_failure", message, 0,
                                    send_message(message, delivered).ok)>>]
              /\ pc' = IF send_message(message, delivered).ok
                       THEN "except_sleep" ELSE "raised"
       ELSE /\ iter' = Did(Event("except", message, 0, TRUE))
            /\ pc' = "except_sleep"
            /\ UNCHANGED <<sent_message, last_failure>>
    /\ UNCHANGED <<env, current_timestamp, response, new_homeworks, error, prev, arg, ret>>

(* the except clause without the comparison of line 149: every failure is  *)
(* notified                                                                *)
main_except_always ==
    /\ pc = "except"
    /\ LET message == Format(ERROR_MESSAGE, [error |-> Str(error)]).val IN
       \E delivered \in Deliveries :
          /\ sent_message' = message
          /\ last_failure' = message
          /\ iter' = [iter EXCEPT !.steps = @ \o
                        <<Event("except", message, 0, TRUE),
                          Event("send_failure", message, 0,
                                send_message(message, delivered).ok)>>]
    /\ pc' = "except_sleep"
    /\ UNCHANGED <<env, current_timestamp, response, new_homeworks, error, prev, arg, ret>>

(* lines 146-154 *)
main_except_clause ==
    /\ pc = "except"
    /\ LET message == Format(ERROR_MESSAGE, [error |-> Str(error)]).val IN
       IF sent_message # message
       THEN \E delivered \in Deliveries :
              /\ sent_message' = message
              /\ last_failure' = message
              /\ iter' = [iter EXCEPT !.steps = @ \o
                            <<Event("except", message, 0, TRUE),
                              Event("send_failure", message, 0,
                                    send_message(message, delivered).ok)>>]
       ELSE /\ iter' = Did(Event("except", message, 0, TRUE))
            /\ UNCHANGED <<sent_message, last_failure>>
    /\ pc' = "except_sleep"
    /\ UNCHANGED <<env, current_timestamp, response, new_homeworks, error, prev, arg, ret>>

main_except == main_except_clause /\ UNCHANGED seen

(* the end of a failed iteration without the sleep of line 155             *)
main_except_no_sleep ==
    /\ pc = "except_sleep"
    /\ prev' = iter
    /\ iter' = EmptyIter
    /\ error' = NoExc
    /\ response' = NoResponse
    /\ pc' = "try"
    /\ UNCHANGED <<env, current_timestamp, sent_message, new_homeworks, applied>>

(* the end of a failed iteration if it advanced the cursor as line 157     *)
(* does                                                                    *)
main_except_sleep_advancing ==
    /\ pc = "except_sleep"
    /\ prev' = Did(Event("sleep", << >>, RETRY_TIME, TRUE))
    /\ iter' = EmptyIter
    /\ error' = NoExc
    /\ current_timestamp' =
         IF response.current_date # << >> THEN response.current_date[1]
         ELSE current_timestamp
    /\ response' = NoResponse
    /\ pc' = "try"
    /\ UNCHANGED <<env, sent_message, new_homeworks, applied>>

(* line 155, the end of a failed iteration; `error` is unbound when the    *)
(* except clause ends                                                      *)
main_except_sleep ==
    /\ pc = "except_sleep"
    /\ prev' = Did(Event("sleep", << >>, RETRY_TIME, TRUE))
    /\ iter' = EmptyIter
    /\ error' = NoExc
    /\ response' = NoResponse
    /\ pc' = "try"
    /\ UNCHANGED <<env, current_timestamp, sent_message, new_homeworks, applied>>

Next ==
    \/ main_check_tokens
    \/ main_get_api_answer
    \/ main_check_response
    \/ main_notify
    \/ main_sleep
    \/ main_else
    \/ main_except
    \/ main_except_sleep

Spec == Init /\ [][Next]_vars

(* main runs on one thread that nothing suspends: a step that can be taken *)
(* is taken                                                                *)
(* The replies are one of each way an iteration can go: a transport        *)
(* failure, a diagnostic field, a status code other than 200, a response   *)
(* of the wrong shape, an empty batch, and a batch of one homework with a  *)
(* known status, an unknown status or no name.                             *)
LiveReplies ==
    {reply \in Replies :
        /\ reply.transport # "ReadTimeout"
        /\ reply.body.kind \in {"dict", "notjson"}
        /\ reply.body.code = << >>
        /\ reply.body.homeworks.t \in {"absent", "list"}
        /\ Len(reply.body.homeworks.v) <= 1
        /\ \A i \in DOMAIN reply.body.homeworks.v :
              reply.body.homeworks.v[i].status # << >>}

main_get_api_answer_live == main_get_api_answer_of(LiveReplies)

LiveNext ==
    \/ main_check_tokens
    \/ main_get_api_answer_live
    \/ main_check_response
    \/ main_notify
    \/ main_sleep
    \/ main_else
    \/ main_except
    \/ main_except_sleep

LiveSpec == Init /\ [][LiveNext]_vars /\ WF_vars(LiveNext)

(***************************************************************************)
(* The same loop, remembering which of the watched diagnostics were        *)
(* notified to the chat.                                                   *)
(***************************************************************************)
FailureNotified(it) ==
    {it.steps[i].text : i \in {j \in DOMAIN it.steps : it.steps[j].ev = "send_failure"}}

Watched ==
    {Format(ERROR_MESSAGE, [error |-> Str(parse_status(h).exc)]).val :
        h \in {Homework(<<"hw1">>, <<"bogus">>), Homework(<< >>, <<"approved">>)}}

main_except_watched ==
    /\ main_except_clause
    /\ seen' = seen \cup (Watched \cap FailureNotified(iter'))

NextWatched ==
    \/ main_check_tokens
    \/ main_get_api_answer
    \/ main_check_response
    \/ main_notify
    \/ main_sleep
    \/ main_else
    \/ main_except_watched
    \/ main_except_sleep

SpecWatched == Init /\ [][NextWatched]_vars

(***************************************************************************)
(* The functions applied on their own, to every reply and every response   *)
(* of a wider alphabet than the loop's.                                    *)
(***************************************************************************)
StatusCodes == {200, 404, 500}

AllBodies ==
    {NonDictBody(k) : k \in {"list", "int"}}
    \cup {Body("dict", e, c, h, d) :
            e \in {<< >>, <<"bad token">>}, c \in {<< >>, <<"UnknownError">>},
            h \in HomeworksValues, d \in Dates \cup {<<2000>>}}

AllReplies ==
    {Reply(t, 200, NonDictBody("notjson")) : t \in {"ConnectionError", "ReadTimeout"}}
    \cup {Reply("ok", code, body) :
            code \in StatusCodes, body \in AllBodies \cup {NonDictBody("notjson")}}

InitApplied ==
    /\ PRACTICUM_TOKEN = <<"token">>
    /\ TELEGRAM_TOKEN = <<"token">>
    /\ TELEGRAM_CHAT_ID = <<"token">>
    /\ pc = "call"
    /\ current_timestamp = 0
    /\ sent_message = << >>
    /\ response = NoResponse
    /\ new_homeworks = << >>
    /\ error = NoExc
    /\ iter = EmptyIter
    /\ prev = EmptyIter
    /\ ret = Unused
    /\ seen = {}
    /\ last_failure = << >>

InitGetApiAnswer ==
    /\ InitApplied
    /\ arg \in {[timestamp |-> t, reply |-> r] : t \in StartTimes \cup {1000}, r \in AllReplies}

call_get_api_answer ==
    /\ pc = "call"
    /\ ret' = get_api_answer(arg.timestamp, arg.reply)
    /\ pc' = "returned"
    /\ UNCHANGED <<env, locals, iter, prev, arg, seen, last_failure>>

SpecGetApiAnswer == InitGetApiAnswer /\ [][call_get_api_answer]_vars

InitCheckResponse ==
    /\ InitApplied
    /\ arg \in AllBodies

call_check_response ==
    /\ pc = "call"
    /\ ret' = check_response(arg)
    /\ pc' = "returned"
    /\ UNCHANGED <<env, locals, iter, prev, arg, seen, last_failure>>

SpecCheckResponse == InitCheckResponse /\ [][call_check_response]_vars

AllHomeworks ==
    {Homework(name, status) :
        name \in {<< >>, <<"">>, <<"hw1">>, <<"hw2">>, <<"user__hw3.zip">>, <<"approved">>},
        status \in {<< >>, <<"">>, <<"approved">>, <<"reviewing">>, <<"rejected">>,
                    <<"bogus">>, <<"APPROVED">>, <<"pending">>, <<"hw1">>}}

InitParseStatus ==
    /\ InitApplied
    /\ arg \in AllHomeworks

call_parse_status ==
    /\ pc = "call"
    /\ ret' = parse_status(arg)
    /\ pc' = "returned"
    /\ UNCHANGED <<env, locals, iter, prev, arg, seen, last_failure>>

SpecParseStatus == InitParseStatus /\ [][call_parse_status]_vars

(***************************************************************************)
(* Reading the history of an iteration.                                    *)
(***************************************************************************)
Steps(it, ev) == {i \in DOMAIN it.steps : it.steps[i].ev = ev}

Count(it, ev) == Cardinality(Steps(it, ev))

StepFailed(it, ev) == \E i \in Steps(it, ev) : ~it.steps[i].ok

Failed(it) == Steps(it, "except") # {}

Diagnostic(it) == it.steps[CHOOSE i \in Steps(it, "except") : TRUE].text

Completed(it) == it.steps # << >>

(***************************************************************************)
(* C1.  The dedup state is updated to the new diagnostic only if the       *)
(* delivery of that diagnostic succeeds: when the except clause has        *)
(* changed sent_message, the iteration holds a successful failure          *)
(* notification carrying that text.  The code assigns sent_message before  *)
(* it attempts the delivery (line 150), so a failed delivery changes it.   *)
(***************************************************************************)
C1_DedupUpdatedOnlyOnDelivery ==
    (pc = "except_sleep" /\ sent_message # iter.dedup0) =>
        \E i \in Steps(iter, "send_failure") :
            iter.steps[i].ok /\ iter.steps[i].text = sent_message

(***************************************************************************)
(* C2.  Failure-message dedup over two consecutive failing iterations,     *)
(* prev and iter, seen when the except clause of the second has run.       *)
(* Notifications are counted as calls of send_message for a diagnostic.    *)
(*                                                                         *)
(* As claimed: identical texts that differ from the dedup state before the *)
(* first give one notification over the two; different texts give two,     *)
(* one per iteration; the later iterations of a run of identical failures  *)
(* send nothing.                                                           *)
(***************************************************************************)
TwoFailures == pc = "except_sleep" /\ Failed(prev) /\ Failed(iter)

FailureSends(it) == Count(it, "send_failure")

C2_AsClaimed ==
    TwoFailures =>
        /\ (Diagnostic(prev) = Diagnostic(iter) /\ Diagnostic(prev) # prev.dedup0
              => FailureSends(prev) + FailureSends(iter) = 1)
        /\ (Diagnostic(prev) # Diagnostic(iter)
              => FailureSends(prev) = 1 /\ FailureSends(iter) = 1)
        /\ (Diagnostic(prev) = Diagnostic(iter) => FailureSends(iter) = 0)

(* C2 as amended: two different texts give two notifications only when the *)
(* first text also differs from the dedup state before the first           *)
(* iteration; when it equals it, only the second iteration notifies.       *)
C2_FailureDedup ==
    TwoFailures =>
        /\ (Diagnostic(prev) = Diagnostic(iter) /\ Diagnostic(prev) # prev.dedup0
              => FailureSends(prev) + FailureSends(iter) = 1)
        /\ (Diagnostic(prev) # Diagnostic(iter) /\ Diagnostic(prev) # prev.dedup0
              => FailureSends(prev) = 1 /\ FailureSends(iter) = 1)
        /\ (Diagnostic(prev) # Diagnostic(iter) /\ Diagnostic(prev) = prev.dedup0
              => FailureSends(prev) = 0 /\ FailureSends(iter) = 1)
        /\ (Diagnostic(prev) = Diagnostic(iter) => FailureSends(iter) = 0)

C2_Witness ==
    /\ TwoFailures
    /\ Diagnostic(prev) = Diagnostic(iter)
    /\ Diagnostic(prev) # prev.dedup0
    /\ prev.dedup0 # << >>
    /\ FailureSends(prev) = 1
    /\ FailureSends(iter) = 0

(***************************************************************************)
(* C3.  As claimed: once a failure notification with a text T has been     *)
(* sent, no later iteration sends a failure notification with T again,     *)
(* whatever happens in between (stated for the watched texts T, which      *)
(* `seen` remembers).                                                      *)
(***************************************************************************)
C3_AsClaimed ==
    [][pc = "except" => FailureNotified(iter') \cap seen = {}]_vars

(* C3 as amended: a failure notification never carries the text of the     *)
(* failure notification sent before it; a text is notified again only      *)
(* after a failure notification with another text.  Successful iterations  *)
(* in between change nothing.                                              *)
C3_NoRepeatInARow ==
    [][pc = "except" => last_failure \notin FailureNotified(iter')]_vars

C3_Witness ==
    /\ pc = "except_sleep"
    /\ Diagnostic(iter) = last_failure
    /\ FailureNotified(iter) = {}
    /\ Completed(prev)
    /\ ~Failed(prev)

(***************************************************************************)
(* C4.  A failing iteration leaves the cursor unchanged, whichever step    *)
(* failed; the cursor differs from the one the iteration started with only *)
(* if fetch, validation, extraction and delivery all succeeded.            *)
(***************************************************************************)
C4_CursorKeptOnFailure ==
    (pc = "try" /\ Completed(prev)) =>
        /\ (Failed(prev) => current_timestamp = prev.cursor0)
        /\ (current_timestamp # prev.cursor0 =>
              /\ ~StepFailed(prev, "get_api_answer")
              /\ ~StepFailed(prev, "check_response")
              /\ ~StepFailed(prev, "parse_status")
              /\ ~StepFailed(prev, "send_status")
              /\ Count(prev, "check_response") = 1)

C4_Witness ==
    /\ pc = "try"
    /\ StepFailed(prev, "send_status")
    /\ prev.date = <<1000>>
    /\ prev.cursor0 # 1000
    /\ current_timestamp = prev.cursor0

(***************************************************************************)
(* C5.  After a successful iteration the cursor, and the cursor the next   *)
(* call of get_api_answer is given, is the response's current_date when    *)
(* the response has one and the previous cursor when it has none.          *)
(***************************************************************************)
NextCursor(it) == IF it.date # << >> THEN it.date[1] ELSE it.cursor0

C5_CursorAfterSuccess ==
    (Completed(prev) /\ ~Failed(prev)) =>
        /\ (pc = "try" => current_timestamp = NextCursor(prev))
        /\ (Completed(iter) =>
              /\ iter.steps[1].ev = "get_api_answer"
              /\ iter.steps[1].n = NextCursor(prev))

C5_Witness ==
    /\ Completed(iter)
    /\ Count(prev, "debug") = 1
    /\ Count(prev, "send_status") = 0
    /\ Count(prev, "send_failure") = 0
    /\ prev.date = <<1000>>
    /\ prev.cursor0 # 1000
    /\ iter.steps[1].n = 1000

(***************************************************************************)
(* C6.  Every iteration sleeps exactly once, for RETRY_TIME, on every      *)
(* path: a completed iteration starts with its one call of get_api_answer  *)
(* and holds exactly one sleep, so exactly one sleep lies between two      *)
(* consecutive calls of get_api_answer.                                    *)
(***************************************************************************)
OneFetchFirst(it) ==
    Completed(it) => it.steps[1].ev = "get_api_answer" /\ Count(it, "get_api_answer") = 1

C6_OneSleepPerIteration ==
    /\ OneFetchFirst(prev)
    /\ OneFetchFirst(iter)
    /\ Completed(prev) => Count(prev, "sleep") = 1
    /\ Count(iter, "sleep") <= 1
    /\ pc = "else" => Count(iter, "sleep") = 1
    /\ \A it \in {prev, iter} : \A i \in Steps(it, "sleep") : it.steps[i].n = RETRY_TIME

C6_Witness ==
    /\ Completed(iter)
    /\ StepFailed(prev, "send_failure")
    /\ Count(prev, "sleep") = 1

(***************************************************************************)
(* C7.  Failure containment: once the loop is entered, whatever fails, a   *)
(* next call of get_api_answer eventually happens; main is never left.     *)
(***************************************************************************)
InLoop == pc \in {"try", "check", "detect", "sleep", "else", "except", "except_sleep"}

JustFetched == Len(iter.steps) = 1

C7_LoopNeverEnds ==
    /\ [](pc \notin {"start", "raised"} => InLoop)
    /\ [](InLoop => <>JustFetched)
    /\ [][InLoop => pc' # "raised"]_vars

C7_Witness ==
    /\ pc = "except_sleep"
    /\ StepFailed(iter, "send_failure")
    /\ StepFailed(iter, "send_status")

(***************************************************************************)
(* C8.  With one of the three configuration values missing or empty, main  *)
(* raises before the loop: no fetch, no notification, no sleep ever        *)
(* happens; with all three present main does not raise and, once past the  *)
(* check, is in the loop.                                                  *)
(***************************************************************************)
MissingConfiguration ==
    \E value \in {PRACTICUM_TOKEN, TELEGRAM_TOKEN, TELEGRAM_CHAT_ID} :
        value \in {<< >>, <<"">>}

Contains(text, tokens) ==
    \E i \in 0..(Len(text) - Len(tokens)) : SubSeq(text, i + 1, i + Len(tokens)) = tokens

C9_UnexpectedStatusCode ==
    (/\ pc = "returned"
     /\ arg.reply.transport = "ok"
     /\ arg.reply.status_code # 200
     /\ arg.reply.body.kind \in {"dict", "list"}
     /\ arg.reply.body.error = << >>
     /\ arg.reply.body.code = << >>)
    => /\ ~ret.ok
       /\ ret.exc.type = "ValueError"
       /\ Contains(ret.exc.text, <<RESPONSE_ERROR[3][2]>> \o IntText(arg.reply.status_code))

(***************************************************************************)
(* C10.  check_response on every response: not a mapping, it fails with    *)
(* the response-shape error naming the type; else with `homeworks` absent  *)
(* or not a list, it fails with the homework-list-shape error naming the   *)
(* type; else it returns the list as it is, empty or not.                  *)
(***************************************************************************)
ShapeError(result, template, type) ==
    /\ ~result.ok
    /\ result.exc.type = "TypeError"
    /\ result.exc.text[1] = template[1][2]
    /\ Contains(result.exc.text, <<type>>)
    /\ Len(result.exc.text) = 4

C10_CheckResponse ==
    pc = "returned" =>
        IF arg.kind # "dict"
        THEN ShapeError(ret, UNEXPECTED_RESPONSE_TYPE, arg.kind)
        ELSE IF arg.homeworks.t \in {"absent", "null"}
        THEN ShapeError(ret, UNEXPECTED_HOMEWORK_TYPE, "NoneType")
        ELSE IF arg.homeworks.t # "list"
        THEN ShapeError(ret, UNEXPECTED_HOMEWORK_TYPE, arg.homeworks.t)
        ELSE ret.ok /\ ret.val = arg.homeworks.v

C10_Witness ==
    /\ pc = "returned"
    /\ arg.kind = "dict"
    /\ arg.homeworks.t = "absent"
    /\ ~ret.ok
    /\ ret.exc.text[1] = UNEXPECTED_HOMEWORK_TYPE[1][2]

(***************************************************************************)
(* C11.  parse_status on every homework record: without the name or the    *)
(* status key it fails with the missing-field error (a KeyError naming the *)
(* key) and produces no text; with both, a status outside approved,        *)
(* reviewing and rejected fails with the unknown-status error naming the   *)
(* value; a known status returns the status-change text with the record's  *)
(* name and the verdict of that status.                                    *)
(***************************************************************************)
KnownStatuses == {"approved", "reviewing", "rejected"}

C11_ParseStatus ==
    pc = "returned" =>
        IF arg.homework_name = << >> \/ arg.status = << >>
        THEN /\ ~ret.ok
             /\ ret.exc.type = "KeyError"
             /\ ret.exc.text \in {<<"homework_name">>, <<"status">>}
             /\ ret.exc.text = <<"homework_name">> <=> arg.homework_name = << >>
        ELSE IF arg.status[1] \notin KnownStatuses
        THEN /\ ~ret.ok
             /\ ret.exc.type = "ValueError"
             /\ ret.exc.text = <<UNEXPECTED_STATUS[1][2], arg.status[1]>>
        ELSE /\ ret.ok
             /\ ret.val = <<"Review status of work changed ", "\"">> \o arg.homework_name
                          \o <<"\"", ". ">> \o HOMEWORK_VERDICTS[arg.status[1]]
             /\ \A other \in KnownStatuses \ {arg.status[1]} :
                    ~Contains(ret.val, HOMEWORK_VERDICTS[other])

C11_Witness ==
    /\ pc = "returned"
    /\ arg = Homework(<<"hw1">>, <<"rejected">>)
    /\ ret.ok
    /\ Contains(ret.val, <<"hw1">>)
    /\ Contains(ret.val, <<"Work checked: the reviewer has remarks.">>)

(***************************************************************************)
(* C12.  Change detection, lines 141-144.  On an empty list of homeworks   *)
(* nothing is parsed or sent, the iteration goes on to its sleep as a      *)
(* success and sent_message is untouched; such an iteration ends with the  *)
(* cursor update and no failure.  On a non-empty list parse_status is      *)
(* called once, at most one status message is sent, and what is sent and   *)
(* whether the iteration fails is a function of element 0 and of the       *)
(* delivery alone.                                                          *)
(***************************************************************************)
WellFormed(homework) ==
    /\ homework.homework_name # << >>
    /\ homework.status # << >>
    /\ homework.status[1] \in KnownStatuses

StatusText(homework) ==
    <<"Review status of work changed ", "\"">> \o homework.homework_name
    \o <<"\"", ". ">> \o HOMEWORK_VERDICTS[homework.status[1]]

StatusSends(it) == {it.steps[i] : i \in Steps(it, "send_status")}

C12_Detect ==
    pc = "detect" =>
        /\ sent_message' = sent_message
        /\ Steps(iter', "send_failure") = {}
        /\ IF new_homeworks = << >>
           THEN /\ pc' = "sleep"
                /\ Steps(iter', "parse_status") = {}
                /\ StatusSends(iter') = {}
           ELSE /\ Count(iter', "parse_status") = 1
                /\ Count(iter', "send_status") <= 1
                /\ IF WellFormed(new_homeworks[1])
                   THEN /\ Count(iter', "send_status") = 1
                        /\ \A sent \in StatusSends(iter') :
                              /\ sent.text = StatusText(new_homeworks[1])
                              /\ sent.ok <=> pc' = "sleep"
                        /\ pc' \in {"sleep", "except"}
                   ELSE /\ pc' = "except"
                        /\ StatusSends(iter') = {}
                        /\ error'.type \in {"KeyError", "ValueError"}

C12_NoChangeIsSuccess ==
    (pc = "try" /\ Steps(prev, "debug") # {}) =>
        /\ ~Failed(prev)
        /\ StatusSends(prev) = {}
        /\ Steps(prev, "send_failure") = {}
        /\ prev.steps[Len(prev.steps)].ev = "cursor"
        /\ current_timestamp = NextCursor(prev)
        /\ sent_message = prev.dedup0

C12_ChangeDetection == [][C12_Detect]_vars /\ []C12_NoChangeIsSuccess

C12_Witness ==
    /\ pc = "sleep"
    /\ Len(response.homeworks.v) = 2
    /\ response.homeworks.v[1] = Homework(<<"hw1">>, <<"approved">>)
    /\ response.homeworks.v[2] = Homework(<<"hw0">>, <<"bogus">>)
    /\ \E sent \in StatusSends(iter) : sent.ok /\ Contains(sent.text, <<"hw1">>)
    /\ Steps(prev, "debug") # {}

(***************************************************************************)
(* C13.  A successful iteration never resets the dedup state: all along a  *)
(* successful iteration, and after it, sent_message is what it was when    *)
(* the iteration began.  So a failure whose diagnostic equals the text     *)
(* notified before the successful iteration sends no failure notification. *)
(***************************************************************************)
C13_DedupSurvivesSuccess ==
    /\ (Completed(iter) /\ ~Failed(iter) /\ pc # "except") => sent_message = iter.dedup0
    /\ (pc = "try" /\ Completed(prev) /\ ~Failed(prev)) => sent_message = prev.dedup0
    /\ (/\ pc = "except_sleep"
        /\ Completed(prev)
        /\ ~Failed(prev)
        /\ prev.dedup0 # << >>
        /\ Diagnostic(iter) = prev.dedup0) => FailureSends(iter) = 0

C13_Witness ==
    /\ pc = "except_sleep"
    /\ Completed(prev)
    /\ ~Failed(prev)
    /\ \E sent \in StatusSends(prev) : sent.ok
    /\ prev.dedup0 # << >>
    /\ Diagnostic(iter) = prev.dedup0
    /\ FailureSends(iter) = 0
    /\ sent_message = prev.dedup0

(***************************************************************************)
(* C14.  Status messages are not deduplicated.  Whenever line 141 finds a  *)
(* batch whose element 0 parses, a status message for element 0 is         *)
(* attempted in that iteration, whatever was sent in the iteration before  *)
(* and whatever sent_message holds; the step leaves sent_message as it     *)
(* was, and sent_message never holds anything but '' or a diagnostic.      *)
(***************************************************************************)
C14_Notify ==
    (pc = "detect" /\ new_homeworks # << >> /\ WellFormed(new_homeworks[1])) =>
        /\ \E sent \in StatusSends(iter') : sent.text = StatusText(new_homeworks[1])
        /\ sent_message' = sent_message

C14_DedupHoldsDiagnostics ==
    sent_message # << >> => sent_message[1] = ERROR_MESSAGE[1][2]

C14_StatusNotDeduplicated == [][C14_Notify]_vars /\ []C14_DedupHoldsDiagnostics

C14_Witness ==
    /\ pc = "sleep"
    /\ ~Failed(prev)
    /\ sent_message # << >>
    /\ \E before \in StatusSends(prev), again \in StatusSends(iter) :
          /\ before.ok
          /\ again.ok
          /\ before.text = again.text

(***************************************************************************)
(* C15.  get_api_answer on a decoded payload that is a mapping with an     *)
(* `error` or a `code` key: it raises the protocol failure (RuntimeError   *)
(* with the unexpected-response text) carrying the value of the key (of    *)
(* `error` when both are there) and the HTTP status code, whether the      *)
(* status code is 200 or not; the payload is never returned.               *)
(***************************************************************************)
ServerDiagnostic(body) == IF body.error # << >> THEN body.error ELSE body.code

C15_ProtocolFailure ==
    (/\ pc = "returned"
     /\ arg.reply.transport = "ok"
     /\ arg.reply.body.kind = "dict"
     /\ (arg.reply.body.error # << >> \/ arg.reply.body.code # << >>))
    => /\ ~ret.ok
       /\ ret.exc.type = "RuntimeError"
       /\ SubSeq(ret.exc.text, 1, 4) =
            <<UNEXPECTED_RESPONSE[1][2]>> \o ServerDiagnostic(arg.reply.body)
            \o <<UNEXPECTED_RESPONSE[3][2]>> \o IntText(arg.reply.status_code)

C15_Witness ==
    /\ pc = "returned"
    /\ arg.reply.transport = "ok"
    /\ arg.reply.status_code = 404
    /\ arg.reply.body.kind = "dict"
    /\ arg.reply.body.error = << >>
    /\ arg.reply.body.code = <<"UnknownError">>
    /\ arg.reply.body.homeworks.t = "list"
    /\ ~ret.ok
    /\ ret.exc.type = "RuntimeError"
    /\ Contains(ret.exc.text, <<"UnknownError">>)
    /\ Contains(ret.exc.text, <<"404">>)

StepNames(it) == [i \in DOMAIN it.steps |-> it.steps[i].ev]

ExtractionOrDeliveryFailed(it) ==
    StepFailed(it, "parse_status") \/ StepFailed(it, "send_status")

Handled(it) ==
    /\ Count(it, "except") = 1
    /\ Diagnostic(it)[1] = ERROR_MESSAGE[1][2]
    /\ FailureSends(it) = (IF Diagnostic(it) # it.dedup0 THEN 1 ELSE 0)
    /\ FailureNotified(it) \subseteq {Diagnostic(it)}

C17_HandledInSameIteration ==
    /\ ExtractionOrDeliveryFailed(iter) =>
          /\ pc \in {"except", "except_sleep"}
          /\ Count(iter, "get_api_answer") = 1
          /\ iter.steps[1].ev = "get_api_answer" /\ iter.steps[1].ok
          /\ iter.steps[2].ev = "check_response" /\ iter.steps[2].ok
          /\ Steps(iter, "sleep") = {}
          /\ pc = "except_sleep" => Handled(iter)
    /\ ExtractionOrDeliveryFailed(prev) =>
          /\ Handled(prev)
          /\ StepNames(prev) \in
                {<<"get_api_answer", "check_response", "parse_status">> \o status \o
                 <<"except">> \o failure \o <<"sleep">> :
                    status \in {<< >>, <<"send_status">>},
                    failure \in {<< >>, <<"send_failure">>}}

C17_Witness ==
    /\ pc = "except_sleep"
    /\ StepFailed(iter, "send_status")
    /\ FailureSends(iter) = 1
    /\ StepFailed(prev, "parse_status")
    /\ FailureSends(prev) = 0
    /\ prev.dedup0 # << >>

(***************************************************************************)
(* C18.  A status message that could not be delivered is not skipped: the  *)
(* iteration in which its delivery failed leaves the cursor as it was, the *)
(* next iteration calls get_api_answer with the cursor of the failed one,  *)
(* and when its batch begins with a record giving the same status text, a  *)
(* status message with that text is attempted again.                       *)
(***************************************************************************)
UndeliveredStatus(it) ==
    {sent.text : sent \in {s \in StatusSends(it) : ~s.ok}}

C18_SameCursor ==
    StepFailed(prev, "send_status") =>
        /\ pc = "try" => current_timestamp = prev.cursor0
        /\ Completed(iter) =>
              /\ iter.steps[1].ev = "get_api_answer"
              /\ iter.steps[1].n = prev.steps[1].n
              /\ iter.cursor0 = prev.cursor0

C18_NotifiedAgain ==
    (/\ pc = "detect"
     /\ new_homeworks # << >>
     /\ WellFormed(new_homeworks[1])
     /\ StatusText(new_homeworks[1]) \in UndeliveredStatus(prev))
    => \E sent \in StatusSends(iter') : sent.text \in UndeliveredStatus(prev)

C18_UndeliveredIsRetried == []C18_SameCursor /\ [][C18_NotifiedAgain]_vars

C18_Witness ==
    /\ StepFailed(prev, "send_status")
    /\ prev.cursor0 = 500
    /\ prev.date = <<1000>>
    /\ iter.cursor0 = 500
    /\ \E sent \in StatusSends(iter) : sent.ok /\ sent.text \in UndeliveredStatus(prev)

(***************************************************************************)
(* C19.  Every iteration calls get_api_answer exactly once, as its first   *)
(* step, and attempts at most two deliveries: at most one status message   *)
(* and at most one failure notification; a failure notification is         *)
(* attempted only in an iteration in which some step before it failed.     *)
(***************************************************************************)
AllSucceeded(it) ==
    \A i \in DOMAIN it.steps : it.steps[i].ev # "send_failure" => it.steps[i].ok

Attempts(it) ==
    /\ it.steps[1].ev = "get_api_answer"
    /\ Count(it, "get_api_answer") = 1
    /\ Count(it, "send_status") <= 1
    /\ FailureSends(it) <= 1
    /\ Count(it, "send_status") + FailureSends(it) <= 2
    /\ AllSucceeded(it) => FailureSends(it) = 0

C19_AttemptsPerIteration ==
    \A it \in {prev, iter} : Completed(it) => Attempts(it)

C19_Witness ==
    /\ pc = "try"
    /\ Count(prev, "get_api_answer") = 1
    /\ StepFailed(prev, "send_status")
    /\ FailureSends(prev) = 1
    /\ StepFailed(prev, "send_failure")

====
